---- MODULE Spec2Model ----
(***************************************************************************)
(* A model of src/main.py: the subscription store, the priority download   *)
(* queue fed by download_callback_handler, the pool of download_worker     *)
(* loops and the per-job pipeline download_and_send_track.                 *)
(*                                                                         *)
(* Every await of a coroutine is a point where the event loop may run      *)
(* another task, so a coroutine is cut into one action per await that      *)
(* matters to shared state; code between two awaits is one atomic step.    *)
(***************************************************************************)
EXTENDS Integers, Sequences, FiniteSets, TLC

(* ---------------------------------------------------------------- bounds *)

\* Number of download callbacks the model lets in.
MaxSubmits == 3

\* src/main.py:48 sets 10; the pool is modelled with a smaller, fixed number
\* of workers (and more jobs than workers).
MAX_CONCURRENT_DOWNLOADS == 2

\* Number of clock advances and of payment events in a behaviour.
MaxTicks == 2

MaxPays == 2
MaxRaceSubmits == 1
MaxChunks == 4
MaxPrioSubmits == 2
MaxPrioChanges == 1
MaxLiveSubmits == 2

(* ------------------------------------------------------------- constants *)

SUBSCRIBE_DURATION_DAYS == 30

\* Seconds per day, the literal 86400 of add_subscription and
\* get_subscription_days_left.
DAY == 86400

\* 50 * 1024 * 1024, the size ceiling of download_and_send_track.
SizeLimit == 50 * 1024 * 1024

ChatIds == {1, 2}

TrackIds == {1, 2}

\* Clock advances: one second, a day less one second, five days less one
\* second, twenty-five days.
TickSteps == {1, DAY - 1, 5 * DAY - 1, 25 * DAY}

\* time.time() is kept in milliseconds; the report interval of line 167.
SECOND == 1000

\* Content-Length values of a response: absent or 0, and two declared sizes.
TotalSizes == {0, 2, 3}

\* Lengths of the chunks iter_chunked yields (0: an empty chunk).
ChunkLens == {0, 1, 2}

\* Time that passes between two chunks.
Delays == {0, SECOND \div 2, SECOND}

\* time.time() when the response arrives: seconds since 1970, never below 1.
StartTimes == {SECOND, 5 * SECOND}

\* File sizes a fetch may leave behind.
FileSizes == {0, SizeLimit, SizeLimit + 1}

Workers == 1..MAX_CONCURRENT_DOWNLOADS

MsgIds == 1..MaxSubmits

\* fetchone() returning None: no row for the user.
NoRow == -1

NoFile == <<"None", 0>>

\* file_size before os.path.getsize has been called.
NoSize == -1

NoTask == [priority |-> -1, chat |-> 0, track |-> 0, msg |-> 0]

\* download_file_aio not called: no locals, no file written, nothing shown.
\* Times are in milliseconds. pc is the await the coroutine stands at;
\* received, reports, prev_report and error_shown record what it did: the
\* bytes the stream delivered, the progress texts shown, the instant of the
\* last one and the failure texts shown.
NoFetch ==
    [pc |-> "idle", total_size |-> 0, downloaded |-> 0, start_time |-> 0,
     last_update |-> 0, clock |-> 0, file_size |-> 0, received |-> 0,
     chunks |-> 0, reports |-> 0, prev_report |-> 0, error_shown |-> 0]

VARIABLES
    now,              \* time.time(), whole seconds
    subs,             \* table subscriptions: user_id -> expires_at (or NoRow)
    invoices,         \* dict invoices: the chats with an open invoice message
    reply,            \* the last answer of a subscription handler
    ticks,            \* clock advances so far
    pays,             \* payment events so far
    started,          \* download callbacks received so far
    handlers,         \* download_callback_handler coroutines awaiting send_message
    nextMsg,          \* message id the transport gives the next progress message
    download_queue,   \* the PriorityQueue's items, in the order they were put
    unfinished_tasks, \* the queue's count of items put and not yet task_done
    wpc,              \* download_worker: "get" (awaiting get), "run", "dead"
    wtask,            \* download_worker: the item it received
    jobs,             \* download_and_send_track: one activation per message id
    fs,               \* the temporary files that exist
    attempts,         \* how many times each item was handed out by get()
    payh,             \* successful_payment_handler coroutines awaiting delete_message
    fetch             \* download_file_aio: the locals of one activation

subVars == <<now, subs, invoices, reply, ticks, pays>>

queueVars == <<started, handlers, nextMsg, download_queue, unfinished_tasks>>

poolVars == <<wpc, wtask, jobs, fs, attempts>>

extVars == <<payh, fetch>>

vars == <<now, subs, invoices, reply, ticks, pays, started, handlers, nextMsg,
          download_queue, unfinished_tasks, wpc, wtask, jobs, fs, attempts,
          payh, fetch>>

(* ---------------------------------------------------- subscription store *)

\* int(a / b): the quotient rounded down.
FloorDiv(a, b) == a \div b

\* math.ceil(a / b) for a > 0, b > 0.
CeilDiv(a, b) == (a + b - 1) \div b

get_subscription_days_left(user_id) ==
    IF subs[user_id] = NoRow THEN 0
    ELSE IF subs[user_id] <= now THEN 0
    ELSE CeilDiv(subs[user_id] - now, DAY)

is_subscribed(user_id) == get_subscription_days_left(user_id) > 0

\* A renewal that counts from the payment instant, dropping the days left.
AddSubscriptionFromNow(user_id, days) ==
    subs' = [subs EXCEPT ![user_id] = now + days * DAY]

\* A renewal that extends whatever row exists, lapsed or not.
AddSubscriptionAlwaysExtend(user_id, days) ==
    IF subs[user_id] # NoRow
    THEN subs' = [subs EXCEPT ![user_id] = subs[user_id] + days * DAY]
    ELSE subs' = [subs EXCEPT ![user_id] = now + days * DAY]

add_subscription(user_id, days) ==
    IF subs[user_id] # NoRow /\ subs[user_id] > now
    THEN subs' = [subs EXCEPT ![user_id] = subs[user_id] + days * DAY]
    ELSE subs' = [subs EXCEPT ![user_id] = now + days * DAY]

\* get_subscription_days_left evaluated on the table after the write.
DaysLeftAfter(user_id) ==
    IF subs'[user_id] = NoRow THEN 0
    ELSE IF subs'[user_id] <= now THEN 0
    ELSE CeilDiv(subs'[user_id] - now, DAY)

NoReply == [kind |-> "none", chat |-> 0, before |-> 0, days |-> 0]

Tick(d) ==
    /\ ticks < MaxTicks
    /\ now' = now + d
    /\ ticks' = ticks + 1
    /\ UNCHANGED <<subs, invoices, reply, pays>>
    /\ UNCHANGED queueVars
    /\ UNCHANGED poolVars
    /\ UNCHANGED extVars

status_handler(chat_id) ==
    /\ reply' = [kind |-> "status", chat |-> chat_id,
                 before |-> get_subscription_days_left(chat_id),
                 days |-> get_subscription_days_left(chat_id)]
    /\ UNCHANGED <<now, subs, invoices, ticks, pays>>
    /\ UNCHANGED queueVars
    /\ UNCHANGED poolVars
    /\ UNCHANGED extVars

\* send_invoice either succeeds (the invoice message is remembered) or raises.
subscribe_handler(chat_id) ==
    /\ \/ /\ invoices' = invoices \cup {chat_id}
          /\ reply' = [kind |-> "invoice", chat |-> chat_id,
                       before |-> get_subscription_days_left(chat_id),
                       days |-> get_subscription_days_left(chat_id)]
       \/ /\ invoices' = invoices
          /\ reply' = [kind |-> "invoice_error", chat |-> chat_id,
                       before |-> get_subscription_days_left(chat_id),
                       days |-> get_subscription_days_left(chat_id)]
    /\ UNCHANGED <<now, subs, ticks, pays>>
    /\ UNCHANGED queueVars
    /\ UNCHANGED poolVars
    /\ UNCHANGED extVars

\* reply.before is the days left read just before the write (it is not a
\* value the handler computes; it is kept to state the effect of a payment).
successful_payment_handler(chat_id, payload) ==
    /\ pays < MaxPays
    /\ pays' = pays + 1
    /\ invoices' = invoices \ {chat_id}
    /\ IF payload = "subscribe_30d"
       THEN /\ add_subscription(chat_id, SUBSCRIBE_DURATION_DAYS)
            /\ reply' = [kind |-> "paid", chat |-> chat_id,
                         before |-> get_subscription_days_left(chat_id),
                         days |-> DaysLeftAfter(chat_id)]
       ELSE /\ subs' = subs
            /\ reply' = [kind |-> "payment_error", chat |-> chat_id,
                         before |-> get_subscription_days_left(chat_id),
                         days |-> get_subscription_days_left(chat_id)]
    /\ UNCHANGED <<now, ticks>>
    /\ UNCHANGED queueVars
    /\ UNCHANGED poolVars
    /\ UNCHANGED extVars

(* ------------------------------------------------------- download queue *)

\* Python's order on the queue items (priority, (chat_id, track_id, msg_id)):
\* the first differing component decides.
TupleLess(a, b) ==
    \/ a.priority < b.priority
    \/ /\ a.priority = b.priority
       /\ \/ a.chat < b.chat
          \/ /\ a.chat = b.chat
             /\ \/ a.track < b.track
                \/ /\ a.track = b.track
                   /\ a.msg < b.msg

\* A plain FIFO queue: the oldest item, whatever its priority.
OldestIndex(q) == 1

\* A queue ordered by what is_subscribed says of the item's chat when the
\* item is taken, not by the priority stored in the item.
HeapMinIndexLive(q) ==
    LET live(e) == [e EXCEPT !.priority =
                                IF is_subscribed(e.chat) THEN 0 ELSE 1]
    IN  CHOOSE i \in 1..Len(q) :
            \A j \in 1..Len(q) : ~TupleLess(live(q[j]), live(q[i]))

\* PriorityQueue._get: heappop returns the least item.
HeapMinIndex(q) ==
    CHOOSE i \in 1..Len(q) : \A j \in 1..Len(q) : ~TupleLess(q[j], q[i])

RemoveAt(q, i) == SubSeq(q, 1, i - 1) \o SubSeq(q, i + 1, Len(q))

(* ---------------------------------------------- download_callback_handler *)

\* Lines 492-496: the priority is read from the store, then the handler
\* awaits delete_message and send_message.
Submit(chat_id, track_id) ==
    /\ started < MaxSubmits
    /\ started' = started + 1
    /\ handlers' = Append(handlers,
                          [chat |-> chat_id, track |-> track_id,
                           priority |-> IF is_subscribed(chat_id) THEN 0 ELSE 1])
    /\ UNCHANGED <<nextMsg, download_queue, unfinished_tasks>>
    /\ UNCHANGED subVars
    /\ UNCHANGED poolVars
    /\ UNCHANGED extVars

\* Lines 503-505: send_message returned the progress message; put() on an
\* unbounded queue does not suspend.
Enqueue(i) ==
    /\ i \in 1..Len(handlers)
    /\ download_queue' = Append(download_queue,
                                [priority |-> handlers[i].priority,
                                 chat |-> handlers[i].chat,
                                 track |-> handlers[i].track,
                                 msg |-> nextMsg])
    /\ unfinished_tasks' = unfinished_tasks + 1
    /\ nextMsg' = nextMsg + 1
    /\ handlers' = RemoveAt(handlers, i)
    /\ UNCHANGED started
    /\ UNCHANGED subVars
    /\ UNCHANGED poolVars
    /\ UNCHANGED extVars

\* Lines 512-513: send_message raised; nothing is put.
HandlerFail(i) ==
    /\ i \in 1..Len(handlers)
    /\ handlers' = RemoveAt(handlers, i)
    /\ UNCHANGED <<started, nextMsg, download_queue, unfinished_tasks>>
    /\ UNCHANGED subVars
    /\ UNCHANGED poolVars
    /\ UNCHANGED extVars

(* ------------------------------------------------ download_and_send_track *)

\* One activation of download_and_send_track. pc is the await it stands at;
\* temp_file, temp_thumb and file_size are its locals; status is the last
\* text it asked
\* edit_progress_message to show; reported is the terminal status the caller
\* was given (DELIVERED: send_audio returned; FAILED: a failure text was
\* shown and the coroutine heads for its finally block). The other fields
\* record what the activation did.
NoJob ==
    [pc |-> "new", chat |-> 0, track |-> 0,
     temp_file |-> NoFile, temp_thumb |-> NoFile,
     status |-> "none", reported |-> "NONE", failedAt |-> "none",
     fetchFailed |-> FALSE, thumbFailed |-> FALSE,
     fetchTried |-> FALSE, file_size |-> NoSize,
     tagTried |-> FALSE, sendTried |-> FALSE, deleteTried |-> FALSE]

\* Lines 209-212: the locals are None and the coroutine awaits tracks().
StartJob(e) ==
    [NoJob EXCEPT !.pc = "tracks", !.chat = e.chat, !.track = e.track,
                  !.status = "queued"]

\* What is kept of an activation once it returned: the status the caller was
\* given and the temporary files it had made.
DoneJob(j) ==
    [NoJob EXCEPT !.pc = "done", !.reported = j.reported,
                  !.temp_file = j.temp_file, !.temp_thumb = j.temp_thumb]

MediaFile(m) == <<"ym", m>>

ThumbFile(m) == <<"thumb", m>>

FilesOf(m) == {MediaFile(m), ThumbFile(m)}

InFlightPcs ==
    {"tracks", "cover", "info", "fetch", "tag", "send", "delete", "finally"}

InFlight == {m \in MsgIds : jobs[m].pc \in InFlightPcs}

WorkersOf(m) == {w \in Workers : wpc[w] = "run" /\ wtask[w].msg = m}

\* The exception leaves download_and_send_track and the worker loop with it.
RaiseKillsWorker(m, stage) ==
    /\ jobs' = [jobs EXCEPT ![m].failedAt = stage,
                            ![m].reported = "FAILED",
                            ![m].pc = "finally"]
    /\ wpc' = [w \in Workers |-> IF w \in WorkersOf(m) THEN "dead" ELSE wpc[w]]
    /\ UNCHANGED fs

\* Lines 287-288: any exception raised in the try body is caught, the text
\* "Общая ошибка" is shown and control passes to the finally block.
Raise(m, stage) ==
    /\ jobs' = [jobs EXCEPT ![m].failedAt = stage,
                            ![m].status = "general_error",
                            ![m].reported = "FAILED",
                            ![m].pc = "finally"]
    /\ UNCHANGED <<wpc, fs>>

\* Lines 212-216: the catalog answers, or the call raises.
FetchMetadata(m) ==
    /\ jobs[m].pc = "tracks"
    /\ \/ /\ jobs' = [jobs EXCEPT ![m].status = "info", ![m].pc = "cover"]
          /\ UNCHANGED <<wpc, fs>>
       \/ Raise(m, "tracks")
    /\ UNCHANGED <<wtask, attempts>>
    /\ UNCHANGED subVars
    /\ UNCHANGED queueVars
    /\ UNCHANGED extVars

\* A job for which a thumbnail that cannot be made is a general error.
FetchCoverThumbFatal(m) ==
    /\ jobs[m].pc = "cover"
    /\ \/ /\ jobs' = [jobs EXCEPT ![m].temp_thumb = ThumbFile(m),
                                  ![m].pc = "info"]
          /\ fs' = fs \cup {ThumbFile(m)}
          /\ UNCHANGED wpc
       \/ /\ jobs' = [jobs EXCEPT ![m].temp_thumb = NoFile,
                                  ![m].thumbFailed = TRUE,
                                  ![m].failedAt = "thumb",
                                  ![m].status = "general_error",
                                  ![m].reported = "FAILED",
                                  ![m].pc = "finally"]
          /\ fs' = (fs \cup {ThumbFile(m)}) \ {ThumbFile(m)}
          /\ UNCHANGED wpc
       \/ Raise(m, "cover")
    /\ UNCHANGED <<wtask, attempts>>
    /\ UNCHANGED subVars
    /\ UNCHANGED queueVars
    /\ UNCHANGED extVars

\* Lines 218-228: the cover request; raise_for_status or the connection may
\* raise. With the cover bytes, save_jpeg_thumb either leaves a thumbnail
\* file and returns its path, or removes the file it made and raises, which
\* the caller turns into temp_thumb = None.
FetchCover(m) ==
    /\ jobs[m].pc = "cover"
    /\ \/ /\ jobs' = [jobs EXCEPT ![m].temp_thumb = ThumbFile(m),
                                  ![m].pc = "info"]
          /\ fs' = fs \cup {ThumbFile(m)}
          /\ UNCHANGED wpc
       \/ /\ jobs' = [jobs EXCEPT ![m].temp_thumb = NoFile,
                                  ![m].thumbFailed = TRUE,
                                  ![m].pc = "info"]
          /\ fs' = (fs \cup {ThumbFile(m)}) \ {ThumbFile(m)}
          /\ UNCHANGED wpc
       \/ Raise(m, "cover")
    /\ UNCHANGED <<wtask, attempts>>
    /\ UNCHANGED subVars
    /\ UNCHANGED queueVars
    /\ UNCHANGED extVars

\* A job that shows the format text and goes on to the transfer all the same.
GetDownloadInfoNoReturn(m) ==
    /\ jobs[m].pc = "info"
    /\ \/ /\ jobs' = [jobs EXCEPT ![m].temp_file = MediaFile(m),
                                  ![m].pc = "fetch"]
          /\ fs' = fs \cup {MediaFile(m)}
          /\ UNCHANGED wpc
       \/ /\ jobs' = [jobs EXCEPT ![m].status = "mp3_unavailable",
                                  ![m].reported = "FAILED",
                                  ![m].temp_file = MediaFile(m),
                                  ![m].pc = "fetch"]
          /\ fs' = fs \cup {MediaFile(m)}
          /\ UNCHANGED wpc
       \/ Raise(m, "info")
    /\ UNCHANGED <<wtask, attempts>>
    /\ UNCHANGED subVars
    /\ UNCHANGED queueVars
    /\ UNCHANGED extVars

\* Lines 230-247: the encodings; none of codec mp3 ends the job with the
\* format text; otherwise mkstemp makes the media file.
GetDownloadInfo(m) ==
    /\ jobs[m].pc = "info"
    /\ \/ /\ jobs' = [jobs EXCEPT ![m].temp_file = MediaFile(m),
                                  ![m].pc = "fetch"]
          /\ fs' = fs \cup {MediaFile(m)}
          /\ UNCHANGED wpc
       \/ /\ jobs' = [jobs EXCEPT ![m].status = "mp3_unavailable",
                                  ![m].reported = "FAILED",
                                  ![m].pc = "finally"]
          /\ UNCHANGED <<wpc, fs>>
       \/ Raise(m, "info")
    /\ UNCHANGED <<wtask, attempts>>
    /\ UNCHANGED subVars
    /\ UNCHANGED queueVars
    /\ UNCHANGED extVars

\* A limit that refuses the file of exactly 50 MiB as well.
TooLargeGe(size) == size >= SizeLimit

\* Line 252: the size test.
TooLarge(size) == size > SizeLimit

\* Lines 249-254: download_file_aio returns normally whether the transfer
\* succeeded or not (its own except shows "Ошибка при загрузке файла" and
\* swallows the exception); then the size left in the file is checked.
DownloadFile(m) ==
    /\ jobs[m].pc = "fetch"
    /\ \E ok \in BOOLEAN, size \in FileSizes :
          LET j0 == [jobs[m] EXCEPT !.fetchTried = TRUE,
                                    !.file_size = size]
              j1 == IF ok THEN j0
                    ELSE [j0 EXCEPT !.fetchFailed = TRUE,
                                    !.status = "fetch_error"]
          IN  IF TooLarge(size)
              THEN jobs' = [jobs EXCEPT ![m] =
                               [j1 EXCEPT !.status = "too_large",
                                          !.reported = "FAILED",
                                          !.pc = "finally"]]
              ELSE jobs' = [jobs EXCEPT ![m] = [j1 EXCEPT !.pc = "tag"]]
    /\ UNCHANGED <<wpc, fs>>
    /\ UNCHANGED <<wtask, attempts>>
    /\ UNCHANGED subVars
    /\ UNCHANGED queueVars
    /\ UNCHANGED extVars

\* Lines 256-258: the tags are written in a thread, or the call raises.
\* file_size is not read after line 252 and is forgotten here.
AddTags(m) ==
    /\ jobs[m].pc = "tag"
    /\ \/ /\ jobs' = [jobs EXCEPT ![m].tagTried = TRUE,
                                  ![m].file_size = NoSize,
                                  ![m].status = "sending",
                                  ![m].pc = "send"]
          /\ UNCHANGED <<wpc, fs>>
       \/ Raise(m, "tag")
    /\ UNCHANGED <<wtask, attempts>>
    /\ UNCHANGED subVars
    /\ UNCHANGED queueVars
    /\ UNCHANGED extVars

\* A send whose except block shows the text and does not return.
SendAudioNoReturn(m) ==
    /\ jobs[m].pc = "send"
    /\ \/ jobs' = [jobs EXCEPT ![m].sendTried = TRUE,
                               ![m].reported = "DELIVERED",
                               ![m].pc = "delete"]
       \/ jobs' = [jobs EXCEPT ![m].sendTried = TRUE,
                               ![m].status = "send_error",
                               ![m].reported = "FAILED",
                               ![m].pc = "delete"]
    /\ UNCHANGED <<wpc, fs>>
    /\ UNCHANGED <<wtask, attempts>>
    /\ UNCHANGED subVars
    /\ UNCHANGED queueVars
    /\ UNCHANGED extVars

\* Lines 260-280: send_audio (add_action_buttons swallows its own errors);
\* a failure shows "Ошибка при отправке трека" and returns.
SendAudio(m) ==
    /\ jobs[m].pc = "send"
    /\ \/ jobs' = [jobs EXCEPT ![m].sendTried = TRUE,
                               ![m].reported = "DELIVERED",
                               ![m].pc = "delete"]
       \/ jobs' = [jobs EXCEPT ![m].sendTried = TRUE,
                               ![m].status = "send_error",
                               ![m].reported = "FAILED",
                               ![m].pc = "finally"]
    /\ UNCHANGED <<wpc, fs>>
    /\ UNCHANGED <<wtask, attempts>>
    /\ UNCHANGED subVars
    /\ UNCHANGED queueVars
    /\ UNCHANGED extVars

\* Lines 282-285: the progress message is deleted; a failure is ignored.
DeleteProgress(m) ==
    /\ jobs[m].pc = "delete"
    /\ jobs' = [jobs EXCEPT ![m].deleteTried = TRUE, ![m].pc = "finally"]
    /\ UNCHANGED <<wpc, fs>>
    /\ UNCHANGED <<wtask, attempts>>
    /\ UNCHANGED subVars
    /\ UNCHANGED queueVars
    /\ UNCHANGED extVars

\* A finally block that forgets the thumbnail.
CleanupSkipsThumb(j) == fs \ ({j.temp_file} \ {NoFile})

\* A finally block that forgets the media file.
CleanupSkipsMedia(j) == fs \ ({j.temp_thumb} \ {NoFile})

\* Lines 289-299: the files left once temp_file and temp_thumb, when set and
\* existing, are removed.
Cleanup(j) == fs \ ({j.temp_file, j.temp_thumb} \ {NoFile})

(* --------------------------------------------------------- download_worker *)

\* A worker that starts the job as a task of its own and goes back to get().
DequeueSpawn(w) ==
    /\ wpc[w] = "get"
    /\ Len(download_queue) > 0
    /\ LET i == HeapMinIndex(download_queue)
           e == download_queue[i]
       IN  /\ download_queue' = RemoveAt(download_queue, i)
           /\ jobs' = [jobs EXCEPT ![e.msg] = StartJob(e)]
           /\ attempts' = [attempts EXCEPT ![e.msg] = @ + 1]
    /\ UNCHANGED <<wpc, wtask, fs>>
    /\ UNCHANGED <<started, handlers, nextMsg, unfinished_tasks>>
    /\ UNCHANGED subVars
    /\ UNCHANGED extVars

\* A worker that leaves STANDARD items in the queue.
DequeuePriorityOnly(w) ==
    /\ wpc[w] = "get"
    /\ Len(download_queue) > 0
    /\ LET i == HeapMinIndex(download_queue)
           e == download_queue[i]
       IN  /\ e.priority = 0
           /\ download_queue' = RemoveAt(download_queue, i)
           /\ wtask' = [wtask EXCEPT ![w] = e]
           /\ jobs' = [jobs EXCEPT ![e.msg] = StartJob(e)]
           /\ attempts' = [attempts EXCEPT ![e.msg] = @ + 1]
    /\ wpc' = [wpc EXCEPT ![w] = "run"]
    /\ UNCHANGED fs
    /\ UNCHANGED <<started, handlers, nextMsg, unfinished_tasks>>
    /\ UNCHANGED subVars
    /\ UNCHANGED extVars

\* Lines 304-306: get() hands the least item to this worker, which calls
\* download_and_send_track(*task) and awaits it.
Dequeue(w) ==
    /\ wpc[w] = "get"
    /\ Len(download_queue) > 0
    /\ LET i == HeapMinIndex(download_queue)
           e == download_queue[i]
       IN  /\ download_queue' = RemoveAt(download_queue, i)
           /\ wtask' = [wtask EXCEPT ![w] = e]
           /\ jobs' = [jobs EXCEPT ![e.msg] = StartJob(e)]
           /\ attempts' = [attempts EXCEPT ![e.msg] = @ + 1]
    /\ wpc' = [wpc EXCEPT ![w] = "run"]
    /\ UNCHANGED fs
    /\ UNCHANGED <<started, handlers, nextMsg, unfinished_tasks>>
    /\ UNCHANGED subVars
    /\ UNCHANGED extVars

\* A worker that puts a failed job back on the queue before acknowledging.
TaskDoneRetry(w) ==
    /\ wpc[w] = "run"
    /\ jobs[wtask[w].msg].pc = "finally"
    /\ fs' = Cleanup(jobs[wtask[w].msg])
    /\ unfinished_tasks' = unfinished_tasks - 1
    /\ download_queue' = IF jobs[wtask[w].msg].reported = "FAILED"
                         THEN Append(download_queue, wtask[w])
                         ELSE download_queue
    /\ jobs' = [jobs EXCEPT ![wtask[w].msg] = DoneJob(@)]
    /\ wpc' = [wpc EXCEPT ![w] = "get"]
    /\ wtask' = [wtask EXCEPT ![w] = NoTask]
    /\ UNCHANGED attempts
    /\ UNCHANGED <<started, handlers, nextMsg>>
    /\ UNCHANGED subVars
    /\ UNCHANGED extVars

\* Lines 289-310: after its last await the job runs its finally block and
\* returns, and the worker calls task_done() and goes back to get(); no
\* await separates these, so the event loop runs them as one step.
TaskDone(w) ==
    /\ wpc[w] = "run"
    /\ jobs[wtask[w].msg].pc = "finally"
    /\ fs' = Cleanup(jobs[wtask[w].msg])
    /\ unfinished_tasks' = unfinished_tasks - 1
    /\ jobs' = [jobs EXCEPT ![wtask[w].msg] = DoneJob(@)]
    /\ wpc' = [wpc EXCEPT ![w] = "get"]
    /\ wtask' = [wtask EXCEPT ![w] = NoTask]
    /\ UNCHANGED attempts
    /\ UNCHANGED <<started, handlers, nextMsg, download_queue>>
    /\ UNCHANGED subVars
    /\ UNCHANGED extVars

(* ---------------------------------------------------------- specifications *)

\* The subscription table outlives the process: chat 1 has no row (free
\* tier), chat 2 has a row that ends in five days (subscriber).
Init ==
    /\ now = 0
    /\ subs = [c \in ChatIds |-> IF c = 2 THEN 5 * DAY ELSE NoRow]
    /\ invoices = {}
    /\ reply = NoReply
    /\ ticks = 0
    /\ pays = 0
    /\ started = 0
    /\ handlers = <<>>
    /\ nextMsg = 1
    /\ download_queue = <<>>
    /\ unfinished_tasks = 0
    /\ wpc = [w \in Workers |-> "get"]
    /\ wtask = [w \in Workers |-> NoTask]
    /\ jobs = [m \in MsgIds |-> NoJob]
    /\ fs = {}
    /\ attempts = [m \in MsgIds |-> 0]
    /\ payh = <<>>
    /\ fetch = NoFetch

\* The download pipeline: callbacks, the queue, the workers and their jobs.
Next ==
    \/ \E c \in ChatIds, t \in TrackIds : Submit(c, t)
    \/ \E i \in 1..MaxSubmits : Enqueue(i)
    \/ \E i \in 1..MaxSubmits : HandlerFail(i)
    \/ \E w \in Workers : Dequeue(w)
    \/ \E m \in MsgIds : FetchMetadata(m)
    \/ \E m \in MsgIds : FetchCover(m)
    \/ \E m \in MsgIds : GetDownloadInfo(m)
    \/ \E m \in MsgIds : DownloadFile(m)
    \/ \E m \in MsgIds : AddTags(m)
    \/ \E m \in MsgIds : SendAudio(m)
    \/ \E m \in MsgIds : DeleteProgress(m)
    \/ \E w \in Workers : TaskDone(w)

Spec == Init /\ [][Next]_vars

\* The subscription store: the clock, payments and the status commands.


(* ------------------------------------------------------ download_file_aio *)

\* A report condition that does not ask for a declared size.
ShouldReportNoTotal(total_size, current_time, last_update, downloaded) ==
    current_time - last_update >= SECOND \/ downloaded = total_size

\* Line 167: whether the chunk just written is followed by a progress text.
ShouldReport(total_size, current_time, last_update, downloaded) ==
    /\ total_size > 0
    /\ (current_time - last_update >= SECOND \/ downloaded = total_size)

\* A report that leaves last_update as it was.
LastUpdateKept(current_time, last_update) == last_update

\* Line 168: last_update after a report.
LastUpdateAfterReport(current_time, last_update) == current_time

\* Lines 153-160: the response arrived with a success status; the locals are
\* set and open(filename, 'wb') empties the file.
FetchOpen(total, t0) ==
    /\ fetch.pc = "idle"
    /\ fetch' = [NoFetch EXCEPT !.pc = "body", !.total_size = total,
                                !.start_time = t0, !.clock = t0]
    /\ UNCHANGED subVars
    /\ UNCHANGED queueVars
    /\ UNCHANGED poolVars
    /\ UNCHANGED payh

\* Lines 154-155, 178-179: the connection fails or raise_for_status raises;
\* the except block shows the transfer-error text.
FetchRefused ==
    /\ fetch.pc = "idle"
    /\ fetch' = [NoFetch EXCEPT !.pc = "failed", !.error_shown = 1]
    /\ UNCHANGED subVars
    /\ UNCHANGED queueVars
    /\ UNCHANGED poolVars
    /\ UNCHANGED payh

\* Lines 161-177: one turn of the loop over the chunks, dt after the last.
\* received, chunks, reports and prev_report record what happened (the bytes
\* yielded, the turns taken, the progress texts requested and the time of
\* the last of them); the function does not read them.
FetchChunk(len, dt) ==
    /\ fetch.pc = "body"
    /\ fetch.chunks < MaxChunks
    /\ LET current_time == fetch.clock + dt
           downloaded == fetch.downloaded + len
       IN  IF len = 0
           THEN fetch' = [fetch EXCEPT !.clock = current_time,
                                       !.chunks = @ + 1]
           ELSE IF ShouldReport(fetch.total_size, current_time,
                                fetch.last_update, downloaded)
                THEN fetch' = [fetch EXCEPT
                                  !.clock = current_time,
                                  !.chunks = @ + 1,
                                  !.file_size = @ + len,
                                  !.received = @ + len,
                                  !.downloaded = downloaded,
                                  !.last_update =
                                      LastUpdateAfterReport(current_time,
                                                            fetch.last_update),
                                  !.reports = @ + 1,
                                  !.prev_report = current_time]
                ELSE fetch' = [fetch EXCEPT
                                  !.clock = current_time,
                                  !.chunks = @ + 1,
                                  !.file_size = @ + len,
                                  !.received = @ + len,
                                  !.downloaded = downloaded]
    /\ UNCHANGED subVars
    /\ UNCHANGED queueVars
    /\ UNCHANGED poolVars
    /\ UNCHANGED payh

\* Line 161: the body ends; the file, the response and the session are
\* closed and the function returns.
FetchEnd ==
    /\ fetch.pc = "body"
    /\ fetch' = [fetch EXCEPT !.pc = "done"]
    /\ UNCHANGED subVars
    /\ UNCHANGED queueVars
    /\ UNCHANGED poolVars
    /\ UNCHANGED payh

\* Lines 161, 178-179: the connection breaks while the body is read; the
\* except block shows the transfer-error text.
FetchAbort ==
    /\ fetch.pc = "body"
    /\ fetch' = [fetch EXCEPT !.pc = "failed", !.error_shown = 1]
    /\ UNCHANGED subVars
    /\ UNCHANGED queueVars
    /\ UNCHANGED poolVars
    /\ UNCHANGED payh

(* --------------------------------------------- payments that interleave *)

\* successful_payment_handler suspends once before it writes the table: at
\* "await bot.delete_message", taken when the chat has an invoice message.
\* payh holds one record per activation that took that branch: pc "delete"
\* while it is suspended there, "done" once it has run to its end.  seen is
\* the row as it was when the activation began (the handler does not read it;
\* it is kept to tell apart the activations that overlap).
PayBegin(chat_id, payload) ==
    /\ pays < MaxPays
    /\ chat_id \in invoices
    /\ pays' = pays + 1
    /\ payh' = Append(payh, [chat |-> chat_id, payload |-> payload,
                             pc |-> "delete", seen |-> subs[chat_id]])
    /\ UNCHANGED <<now, subs, invoices, reply, ticks, fetch>>
    /\ UNCHANGED queueVars
    /\ UNCHANGED poolVars

\* A resumption that writes the expiry computed from the row as it was
\* when the activation began.
PayResumeStale(i) ==
    LET h == payh[i]
    IN  /\ h.pc = "delete"
        /\ payh' = [payh EXCEPT ![i].pc = "done"]
        /\ invoices' = invoices \ {h.chat}
        /\ IF h.payload = "subscribe_30d"
           THEN /\ subs' = [subs EXCEPT ![h.chat] =
                               IF h.seen # NoRow /\ h.seen > now
                               THEN h.seen + SUBSCRIBE_DURATION_DAYS * DAY
                               ELSE now + SUBSCRIBE_DURATION_DAYS * DAY]
                /\ reply' = [kind |-> "paid", chat |-> h.chat,
                             before |-> get_subscription_days_left(h.chat),
                             days |-> DaysLeftAfter(h.chat)]
           ELSE /\ subs' = subs
                /\ reply' = [kind |-> "payment_error", chat |-> h.chat,
                             before |-> get_subscription_days_left(h.chat),
                             days |-> get_subscription_days_left(h.chat)]
        /\ UNCHANGED <<now, ticks, pays, fetch>>
        /\ UNCHANGED queueVars
        /\ UNCHANGED poolVars

\* delete_message returned or raised: finally pops the invoice, then the
\* payload is examined and add_subscription runs, with no await in between.
PayResume(i) ==
    LET h == payh[i]
    IN  /\ h.pc = "delete"
        /\ payh' = [payh EXCEPT ![i].pc = "done"]
        /\ invoices' = invoices \ {h.chat}
        /\ IF h.payload = "subscribe_30d"
           THEN /\ add_subscription(h.chat, SUBSCRIBE_DURATION_DAYS)
                /\ reply' = [kind |-> "paid", chat |-> h.chat,
                             before |-> get_subscription_days_left(h.chat),
                             days |-> DaysLeftAfter(h.chat)]
           ELSE /\ subs' = subs
                /\ reply' = [kind |-> "payment_error", chat |-> h.chat,
                             before |-> get_subscription_days_left(h.chat),
                             days |-> get_subscription_days_left(h.chat)]
        /\ UNCHANGED <<now, ticks, pays, fetch>>
        /\ UNCHANGED queueVars
        /\ UNCHANGED poolVars

\* The chat has no invoice message: the handler reaches add_subscription
\* without suspending.
PayDirect(chat_id, payload) ==
    /\ chat_id \notin invoices
    /\ successful_payment_handler(chat_id, payload)

\* download_callback_handler activations running beside the payments.
RaceSubmit(chat_id, track_id) ==
    /\ started < MaxRaceSubmits
    /\ Submit(chat_id, track_id)


\* download_callback_handler activations running while subscriptions start
\* and lapse.
PrioSubmit(chat_id, track_id) ==
    /\ started < MaxPrioSubmits
    /\ Submit(chat_id, track_id)

\* The clock passes the end of the subscriptions there are.
PrioLapse ==
    /\ ticks < MaxPrioChanges
    /\ Tick(25 * DAY)

\* A subscription starts: a payment of a chat without invoice message.
PrioPay(chat_id) ==
    /\ pays < MaxPrioChanges
    /\ PayDirect(chat_id, "subscribe_30d")


\* download_callback_handler activations, finitely many.
LiveSubmit(chat_id, track_id) ==
    /\ started < MaxLiveSubmits
    /\ Submit(chat_id, track_id)

InitSub ==
    /\ now = 0
    /\ subs \in [ChatIds -> {NoRow, 0, 5 * DAY}]
    /\ invoices = {}
    /\ reply = NoReply
    /\ ticks = 0
    /\ pays = 0
    /\ started = 0
    /\ handlers = <<>>
    /\ nextMsg = 1
    /\ download_queue = <<>>
    /\ unfinished_tasks = 0
    /\ wpc = [w \in Workers |-> "get"]
    /\ wtask = [w \in Workers |-> NoTask]
    /\ jobs = [m \in MsgIds |-> NoJob]
    /\ fs = {}
    /\ attempts = [m \in MsgIds |-> 0]
    /\ payh = <<>>
    /\ fetch = NoFetch

NextSub ==
    \/ \E d \in TickSteps : Tick(d)
    \/ \E c \in ChatIds : status_handler(c)
    \/ \E c \in ChatIds : subscribe_handler(c)
    \/ \E c \in ChatIds, p \in {"subscribe_30d", "other"} :
          successful_payment_handler(c, p)

SpecSub == InitSub /\ [][NextSub]_vars

NextRace ==
    \/ \E d \in TickSteps : Tick(d)
    \/ \E c \in ChatIds : status_handler(c)
    \/ \E c \in ChatIds : subscribe_handler(c)
    \/ \E c \in ChatIds, p \in {"subscribe_30d", "other"} : PayBegin(c, p)
    \/ \E i \in 1..Len(payh) : PayResume(i)
    \/ \E c \in ChatIds, p \in {"subscribe_30d", "other"} : PayDirect(c, p)
    \/ \E c \in ChatIds, t \in TrackIds : RaceSubmit(c, t)
    \/ \E i \in 1..Len(handlers) : Enqueue(i)
    \/ \E i \in 1..Len(handlers) : HandlerFail(i)

SpecRace == Init /\ [][NextRace]_vars

NextFetch ==
    \/ \E total \in TotalSizes, t0 \in StartTimes : FetchOpen(total, t0)
    \/ FetchRefused
    \/ \E len \in ChunkLens, dt \in Delays : FetchChunk(len, dt)
    \/ FetchEnd
    \/ FetchAbort

SpecFetch == Init /\ [][NextFetch]_vars

\* The queue and the workers while the clock runs past the end of a
\* subscription and payments arrive.
NextPrio ==
    \/ PrioLapse
    \/ \E c \in ChatIds : PrioPay(c)
    \/ \E c \in ChatIds, t \in TrackIds : PrioSubmit(c, t)
    \/ \E i \in 1..Len(handlers) : Enqueue(i)
    \/ \E i \in 1..Len(handlers) : HandlerFail(i)
    \/ \E w \in Workers : Dequeue(w)
    \/ \E m \in MsgIds : FetchMetadata(m)
    \/ \E m \in MsgIds : FetchCover(m)
    \/ \E m \in MsgIds : GetDownloadInfo(m)
    \/ \E m \in MsgIds : DownloadFile(m)
    \/ \E m \in MsgIds : AddTags(m)
    \/ \E m \in MsgIds : SendAudio(m)
    \/ \E m \in MsgIds : DeleteProgress(m)
    \/ \E w \in Workers : TaskDone(w)

SpecPrio == Init /\ [][NextPrio]_vars

\* The pipeline with finitely many submissions.
NextLive ==
    \/ \E c \in ChatIds, t \in TrackIds : LiveSubmit(c, t)
    \/ \E i \in 1..MaxSubmits : Enqueue(i)
    \/ \E i \in 1..MaxSubmits : HandlerFail(i)
    \/ \E w \in Workers : Dequeue(w)
    \/ \E m \in MsgIds : FetchMetadata(m)
    \/ \E m \in MsgIds : FetchCover(m)
    \/ \E m \in MsgIds : GetDownloadInfo(m)
    \/ \E m \in MsgIds : DownloadFile(m)
    \/ \E m \in MsgIds : AddTags(m)
    \/ \E m \in MsgIds : SendAudio(m)
    \/ \E m \in MsgIds : DeleteProgress(m)
    \/ \E w \in Workers : TaskDone(w)

\* Every awaited call of a handler or a job returns or raises in the end, and
\* the event loop runs every worker that is ready: each worker that can
\* receive an item or acknowledge one does so.  Nothing obliges a user to
\* submit.
Fairness ==
    /\ \A i \in 1..MaxSubmits : WF_vars(Enqueue(i) \/ HandlerFail(i))
    /\ \A w \in Workers : WF_vars(Dequeue(w))
    /\ \A w \in Workers : WF_vars(TaskDone(w))
    /\ \A m \in MsgIds : WF_vars(FetchMetadata(m))
    /\ \A m \in MsgIds : WF_vars(FetchCover(m))
    /\ \A m \in MsgIds : WF_vars(GetDownloadInfo(m))
    /\ \A m \in MsgIds : WF_vars(DownloadFile(m))
    /\ \A m \in MsgIds : WF_vars(AddTags(m))
    /\ \A m \in MsgIds : WF_vars(SendAudio(m))
    /\ \A m \in MsgIds : WF_vars(DeleteProgress(m))

SpecLive == Init /\ [][NextLive]_vars /\ Fairness

(* ------------------------------------------------------------ properties *)

\* The step in which worker w receives an item from get().
Dequeues(w) == wpc[w] = "get" /\ wpc'[w] = "run"

\* C1: no worker ever dequeues a STANDARD item (priority 1) while a PRIORITY
\* item (priority 0) is in the queue: the item get() hands out has the least
\* priority number of the items queued at that instant.
C1_PriorityFirst ==
    [][\A w \in Workers :
          Dequeues(w) =>
              \A i \in 1..Len(download_queue) :
                  download_queue[i].priority >= wtask'[w].priority]_vars

\* C1 witness: a PRIORITY job has just been dequeued while a STANDARD job
\* that was put before it is still waiting in the queue.
C1_Witness ==
    \E w \in Workers :
        /\ wpc[w] = "run"
        /\ wtask[w].priority = 0
        /\ jobs[wtask[w].msg].pc = "tracks"
        /\ \E i \in 1..Len(download_queue) :
              /\ download_queue[i].priority = 1
              /\ download_queue[i].msg < wtask[w].msg

\* C2 (as claimed): within one priority class items leave the queue in the
\* order they were put: the item handed out has no item of its own class
\* before it in admission order.
C2_FifoWithinClass ==
    [][\A w \in Workers :
          Dequeues(w) =>
              \A i, k \in 1..Len(download_queue) :
                  (download_queue[k] = wtask'[w] /\ i < k) =>
                      download_queue[i].priority # download_queue[k].priority]_vars

\* C3: at most MAX_CONCURRENT_DOWNLOADS jobs are dequeued and unfinished, and
\* every other job that was put and has not finished is in the queue.
C3_BoundedInFlight ==
    /\ Cardinality(InFlight) <= MAX_CONCURRENT_DOWNLOADS
    /\ \A m \in MsgIds :
          (m < nextMsg /\ jobs[m].pc = "new") =>
              \E i \in 1..Len(download_queue) : download_queue[i].msg = m

\* C3 witness: every worker is busy and a further job waits in the queue.
C3_Witness ==
    /\ Cardinality(InFlight) = MAX_CONCURRENT_DOWNLOADS
    /\ Len(download_queue) > 0

\* C4 (as claimed): once the media fetch of a job failed, the fetch-failure
\* text stays the last status update of the job and neither tag embedding nor
\* the send of the artifact is attempted.
C4_FetchFailureEndsJob ==
    \A m \in MsgIds :
        jobs[m].fetchFailed =>
            /\ jobs[m].status = "fetch_error"
            /\ ~jobs[m].tagTried
            /\ jobs[m].failedAt # "tag"
            /\ ~jobs[m].sendTried

\* C5: a job that has returned, by any exit path, leaves neither its media
\* file nor its thumbnail file behind.
C5_NoTempFilesLeft ==
    \A m \in MsgIds :
        jobs[m].pc \in {"new", "done"} => FilesOf(m) \cap fs = {}

\* C5 witness: a job that made both files and ended FAILED has returned and
\* both files are gone.
C5_Witness ==
    \E m \in MsgIds :
        /\ jobs[m].pc = "done"
        /\ jobs[m].reported = "FAILED"
        /\ jobs[m].temp_file = MediaFile(m)
        /\ jobs[m].temp_thumb = ThumbFile(m)
        /\ FilesOf(m) \cap fs = {}

\* C6 (as claimed): the temporary files of a job are deleted before its
\* terminal status is reported: once the status is reported, none exists.
C6_DeletedBeforeReport ==
    \A m \in MsgIds :
        jobs[m].reported # "NONE" => FilesOf(m) \cap fs = {}

\* C6 (amended): the temporary files a job holds are deleted only after its
\* terminal status has been reported, all of them in the step in which
\* download_and_send_track returns.
C6_CleanupFollowsReport ==
    [][\A m \in MsgIds :
          (\E f \in FilesOf(m) : f \in fs /\ f \notin fs') =>
              /\ jobs[m].reported # "NONE"
              /\ jobs'[m].pc = "done"
              /\ FilesOf(m) \cap fs' = {}]_vars

\* C6 witness: a delivered job has returned and its media file is gone.
C6_Witness ==
    \E m \in MsgIds :
        /\ jobs[m].pc = "done"
        /\ jobs[m].reported = "DELIVERED"
        /\ jobs[m].temp_file = MediaFile(m)
        /\ FilesOf(m) \cap fs = {}

\* C7 (as claimed): a failure of the cover request alone does not make the
\* job FAILED.
C7_CoverFailureNonFatal ==
    \A m \in MsgIds :
        jobs[m].failedAt = "cover" => jobs[m].reported # "FAILED"

\* C8: no job outcome ends a worker: all MAX_CONCURRENT_DOWNLOADS loops are
\* alive in every state, and every unfinished dequeued job has a worker
\* awaiting it that will acknowledge it.
C8_WorkersNeverDie ==
    /\ Cardinality({w \in Workers : wpc[w] # "dead"}) = MAX_CONCURRENT_DOWNLOADS
    /\ \A m \in InFlight : WorkersOf(m) # {}

\* C8 witness: every job let in has ended FAILED (more jobs than workers, so
\* some worker ran a job after a failed one) and all workers wait on get().
C8_Witness ==
    /\ \A m \in MsgIds : jobs[m].pc = "done" /\ jobs[m].reported = "FAILED"
    /\ \A w \in Workers : wpc[w] = "get"

\* C9: every item is handed out by get() at most once and to one worker, an
\* item a worker holds is not in the queue, and the queue's count of
\* unfinished items is the items queued plus the items being worked on (one
\* task_done per get).
C9_ExactlyOnce ==
    /\ \A m \in MsgIds : attempts[m] <= 1
    /\ \A w1, w2 \in Workers :
          (w1 # w2 /\ wpc[w1] = "run" /\ wpc[w2] = "run") =>
              wtask[w1].msg # wtask[w2].msg
    /\ \A w \in Workers :
          wpc[w] = "run" =>
              \A i \in 1..Len(download_queue) :
                  download_queue[i].msg # wtask[w].msg
    /\ unfinished_tasks =
          Len(download_queue) + Cardinality({w \in Workers : wpc[w] = "run"})

\* C9 witness: a job failed, was attempted once, and at the end nothing is
\* queued, running or unacknowledged.
C9_Witness ==
    /\ started = MaxSubmits
    /\ handlers = <<>>
    /\ download_queue = <<>>
    /\ unfinished_tasks = 0
    /\ \A w \in Workers : wpc[w] = "get"
    /\ \E m \in MsgIds :
          /\ jobs[m].pc = "done"
          /\ jobs[m].reported = "FAILED"
          /\ attempts[m] = 1

\* C10: a payment on an active subscription adds the plan's days: with d > 0
\* days left before add_subscription, d + 30 days are left at the same
\* instant after it.
C10_PaymentIsAdditive ==
    (reply.kind = "paid" /\ reply.before > 0) =>
        reply.days = reply.before + SUBSCRIBE_DURATION_DAYS

\* C10 witness: a subscriber with 5 days left paid and has 35 days left.
C10_Witness ==
    reply.kind = "paid" /\ reply.before = 5 /\ reply.days = 35

\* C11: a payment by a user with no row or a lapsed row (expires_at <= now,
\* expires_at = now included) sets expires_at = now + 30 days, whatever the
\* old expiry was, and 30 days are left at that instant.
C11_LapsedRestarts ==
    [][\A c \in ChatIds :
          (/\ pays' = pays + 1
           /\ reply'.kind = "paid"
           /\ reply'.chat = c
           /\ (subs[c] = NoRow \/ subs[c] <= now)) =>
              /\ subs'[c] = now + SUBSCRIBE_DURATION_DAYS * DAY
              /\ reply'.days = SUBSCRIBE_DURATION_DAYS]_vars

\* C11 witness: at the instant five days after the start (the instant the
\* five-day row ends) a user with nothing left paid and has 30 days, the
\* row ending 30 days from that instant.
C11_Witness ==
    /\ now = 5 * DAY
    /\ reply.kind = "paid"
    /\ reply.before = 0
    /\ reply.days = SUBSCRIBE_DURATION_DAYS
    /\ subs[reply.chat] = now + SUBSCRIBE_DURATION_DAYS * DAY

\* C12: the days left are never negative, 0 without a row or with
\* expires_at <= now, and otherwise the least d >= 1 with
\* expires_at - now <= d days; they do not grow while the clock advances and
\* the table is not written.
C12_DaysLeft ==
    [][\A c \in ChatIds :
          LET d == get_subscription_days_left(c)
          IN  /\ d >= 0
              /\ (subs[c] = NoRow \/ subs[c] <= now) => d = 0
              /\ (subs[c] # NoRow /\ subs[c] > now) =>
                    /\ d >= 1
                    /\ (d - 1) * DAY < subs[c] - now
                    /\ subs[c] - now <= d * DAY
              /\ subs' = subs => get_subscription_days_left(c)' <= d]_vars

\* C12 witness: after a clock advance less than a day (here one second) is
\* left of a subscription, and one day is reported.
C12_Witness ==
    \E c \in ChatIds :
        /\ ticks > 0
        /\ subs[c] - now = 1
        /\ get_subscription_days_left(c) = 1

\* What one payment makes of a row e at time t.
Renewed(e, t) ==
    IF e # NoRow /\ e > t
    THEN e + SUBSCRIBE_DURATION_DAYS * DAY
    ELSE t + SUBSCRIBE_DURATION_DAYS * DAY

\* The step in which a recognized payment of chat c is applied.
PaymentApplied(c) ==
    /\ reply'.kind = "paid"
    /\ reply'.chat = c
    /\ \/ pays' = pays + 1 /\ payh' = payh
       \/ \E i \in 1..Len(payh) :
             payh[i].pc = "delete" /\ payh'[i].pc = "done"

\* C13: payments of one subscriber that overlap, with each other and with
\* the download and status handlers, all take effect: each is applied to the
\* row as it is at that instant (never to an earlier reading), no suspended
\* payment is dropped, nothing else writes the table, and a subscriber has
\* one row.
C13_NoLostPayment ==
    [][/\ \A c \in ChatIds :
             PaymentApplied(c) =>
                 /\ subs'[c] = Renewed(subs[c], now)
                 /\ \A o \in ChatIds \ {c} : subs'[o] = subs[o]
       /\ \A i \in 1..Len(payh) :
             /\ Len(payh') >= Len(payh)
             /\ payh'[i].pc # payh[i].pc =>
                   /\ payh[i].pc = "delete"
                   /\ payh[i].payload = "subscribe_30d" =>
                         PaymentApplied(payh[i].chat)
       /\ subs' # subs => \E c \in ChatIds : PaymentApplied(c)
       /\ DOMAIN subs' = ChatIds]_vars

\* C13 witness: two payments of one chat without a row were both suspended
\* before either wrote (both saw no row), both have finished, and the row
\* ends 60 days from now.
C13_Witness ==
    /\ Len(payh) = 2
    /\ ticks = 0
    /\ payh[1].chat = payh[2].chat
    /\ \A i \in 1..2 :
          /\ payh[i].pc = "done"
          /\ payh[i].payload = "subscribe_30d"
          /\ payh[i].seen = NoRow
    /\ subs[payh[1].chat] = now + 2 * SUBSCRIBE_DURATION_DAYS * DAY

\* C14: a job whose track has no mp3 encoding is FAILED with the
\* format-unavailable text and goes straight to its finally block: no
\* temporary media file was made for it and no transfer of media bytes was
\* requested.
C14_NoMp3NoFetch ==
    \A m \in MsgIds :
        jobs[m].status = "mp3_unavailable" =>
            /\ jobs[m].pc = "finally"
            /\ jobs[m].reported = "FAILED"
            /\ jobs[m].temp_file = NoFile
            /\ MediaFile(m) \notin fs
            /\ ~jobs[m].fetchTried
            /\ ~jobs[m].tagTried
            /\ ~jobs[m].sendTried

\* C14 witness: a job stands at its finally block with the
\* format-unavailable text shown.
C14_Witness ==
    \E m \in MsgIds :
        /\ jobs[m].status = "mp3_unavailable"
        /\ jobs[m].pc = "finally"
        /\ jobs[m].reported = "FAILED"

\* C15: a fetched file larger than 50 MiB makes the job FAILED with the
\* too-large text, with neither tagging nor sending attempted; a file of
\* exactly 50 MiB or less goes on to tagging.
C15_SizeLimit ==
    \A m \in MsgIds :
        /\ jobs[m].status = "too_large" =>
              /\ jobs[m].file_size > SizeLimit
              /\ jobs[m].pc = "finally"
              /\ jobs[m].reported = "FAILED"
              /\ ~jobs[m].tagTried
              /\ jobs[m].failedAt # "tag"
              /\ ~jobs[m].sendTried
        /\ (jobs[m].fetchTried /\ jobs[m].file_size # NoSize
              /\ jobs[m].file_size <= SizeLimit) =>
              /\ jobs[m].status # "too_large"
              /\ jobs[m].pc = "tag" \/ jobs[m].failedAt = "tag"
        /\ jobs[m].pc = "tag" =>
              jobs[m].file_size \in 0..SizeLimit

\* C15 witness: one job was refused for a file of 50 MiB and one byte while
\* another, with a file of exactly 50 MiB, stands before tagging.
C15_Witness ==
    \E m, n \in MsgIds :
        /\ jobs[m].status = "too_large"
        /\ jobs[m].file_size = SizeLimit + 1
        /\ jobs[n].pc = "tag"
        /\ jobs[n].file_size = SizeLimit

\* The causes of FAILED other than the thumbnail.
OtherFailure(j) ==
    \/ j.failedAt \in {"info", "tag"}
    \/ j.status \in {"mp3_unavailable", "too_large", "send_error"}

\* C18: a thumbnail that cannot be derived never fails the job (the job goes
\* on with temp_thumb unset and no thumbnail file on disk, and if it is
\* FAILED another step failed); tagging that raises is fatal: the job is
\* FAILED with the general error and send_audio is never called.
C18_ThumbOptionalTagsFatal ==
    \A m \in MsgIds :
        /\ jobs[m].thumbFailed =>
              /\ jobs[m].temp_thumb = NoFile
              /\ ThumbFile(m) \notin fs
              /\ jobs[m].pc # "cover"
              /\ jobs[m].reported = "FAILED" => OtherFailure(jobs[m])
        /\ jobs[m].failedAt = "tag" =>
              /\ jobs[m].pc = "finally"
              /\ jobs[m].reported = "FAILED"
              /\ jobs[m].status = "general_error"
              /\ ~jobs[m].sendTried

\* C18 witness: one job without a thumbnail has been delivered and another
\* stands FAILED at its finally block after tagging raised.
C18_Witness ==
    \E m, n \in MsgIds :
        /\ jobs[m].thumbFailed
        /\ jobs[m].sendTried
        /\ jobs[m].reported = "DELIVERED"
        /\ jobs[n].failedAt = "tag"
        /\ jobs[n].reported = "FAILED"

\* C19: when send_audio returns the job is DELIVERED and the deletion of the
\* progress message is requested, once, and only for a delivered job; when
\* send_audio raises the job is FAILED with the sending-error text shown in
\* the progress message and no deletion is requested.
C19_DeleteOnlyAfterDelivery ==
    \A m \in MsgIds :
        /\ jobs[m].pc = "delete" =>
              /\ jobs[m].reported = "DELIVERED"
              /\ jobs[m].sendTried
              /\ ~jobs[m].deleteTried
        /\ jobs[m].deleteTried =>
              /\ jobs[m].reported = "DELIVERED"
              /\ jobs[m].pc = "finally"
        /\ (jobs[m].reported = "DELIVERED" /\ jobs[m].pc = "finally") =>
              jobs[m].deleteTried
        /\ (jobs[m].sendTried /\ jobs[m].reported = "FAILED") =>
              /\ jobs[m].status = "send_error"
              /\ jobs[m].pc = "finally"
              /\ ~jobs[m].deleteTried
        /\ jobs[m].status = "send_error" =>
              /\ jobs[m].sendTried
              /\ jobs[m].reported = "FAILED"

\* C19 witness: one job is delivered with its progress message deleted and
\* another is FAILED with the sending-error text and no deletion.
C19_Witness ==
    \E m, n \in MsgIds :
        /\ jobs[m].reported = "DELIVERED"
        /\ jobs[m].deleteTried
        /\ jobs[n].status = "send_error"
        /\ jobs[n].reported = "FAILED"
        /\ ~jobs[n].deleteTried

\* The step in which a progress text is requested.
Reports == fetch'.reports = fetch.reports + 1

\* C16: with a declared total size, the first chunk is followed by a
\* progress report and so is the chunk that brings the bytes received to the
\* total; every report other than that last one comes at least one second
\* after the report before it.
C16_ProgressReports ==
    [][/\ fetch'.reports \in {fetch.reports, fetch.reports + 1}
       /\ (/\ fetch.total_size > 0
           /\ fetch.downloaded = 0
           /\ fetch'.downloaded > 0) => Reports
       /\ (/\ fetch.total_size > 0
           /\ fetch'.downloaded > fetch.downloaded
           /\ fetch'.downloaded = fetch.total_size) => Reports
       /\ (/\ fetch.pc = "body"
           /\ Reports
           /\ fetch.reports > 0
           /\ fetch'.downloaded # fetch.total_size) =>
              fetch'.clock - fetch.prev_report >= SECOND]_vars

\* C16 witness: three chunks made up a declared total of three bytes in
\* less than a second; the first and the last were reported, the second
\* was not.
C16_Witness ==
    /\ fetch.pc = "done"
    /\ fetch.total_size = 3
    /\ fetch.downloaded = 3
    /\ fetch.chunks = 3
    /\ fetch.reports = 2
    /\ fetch.clock - fetch.start_time < SECOND

\* C17: without a declared total size (Content-Length absent or 0) no
\* progress report is ever requested, and the transfer, when the body ends,
\* returns without the error text, the file holding exactly the bytes that
\* were received.
C17_NoTotalNoProgress ==
    fetch.total_size = 0 =>
        /\ fetch.reports = 0
        /\ fetch.pc = "done" =>
              /\ fetch.error_shown = 0
              /\ fetch.file_size = fetch.received
              /\ fetch.downloaded = fetch.received

\* C17 witness: a body without declared size ended after more than a second
\* and several bytes, with no report.
C17_Witness ==
    /\ fetch.pc = "done"
    /\ fetch.total_size = 0
    /\ fetch.received >= 3
    /\ fetch.file_size = fetch.received
    /\ fetch.clock - fetch.start_time >= 2 * SECOND
    /\ fetch.reports = 0

\* The class of chat c at this instant: 0 (PRIORITY) with a subscription
\* that has not ended, 1 (STANDARD) otherwise.
ClassNow(c) == IF subs[c] # NoRow /\ subs[c] > now THEN 0 ELSE 1

\* C20: the priority of a job is the class of its chat at the instant the
\* request is submitted, and it stays with the job: a step that starts or
\* ends a subscription changes neither the handlers, the queue, the workers
\* nor the jobs; the priority is carried unchanged from the handler into the
\* queue and from the queue to the worker; and get() orders by the stored
\* priority.  Each later submission reads the class anew.
C20_PriorityFixedAtAdmission ==
    [][/\ started' = started + 1 =>
             LET h == handlers'[Len(handlers')]
             IN  h.priority = ClassNow(h.chat)
       /\ (subs' # subs \/ now' # now) =>
             /\ handlers' = handlers
             /\ download_queue' = download_queue
             /\ wpc' = wpc
             /\ wtask' = wtask
             /\ jobs' = jobs
       /\ \A i \in 1..Len(download_queue), j \in 1..Len(download_queue') :
             download_queue[i].msg = download_queue'[j].msg =>
                 download_queue'[j] = download_queue[i]
       /\ nextMsg' = nextMsg + 1 =>
             \E i \in 1..Len(handlers) :
                 LET e == download_queue'[Len(download_queue')]
                 IN  /\ handlers' = RemoveAt(handlers, i)
                     /\ e.priority = handlers[i].priority
                     /\ e.chat = handlers[i].chat
                     /\ e.msg = nextMsg
       /\ \A w \in Workers :
             /\ Dequeues(w) =>
                   /\ \E i \in 1..Len(download_queue) :
                         download_queue[i] = wtask'[w]
                   /\ \A i \in 1..Len(download_queue) :
                         download_queue[i].priority >= wtask'[w].priority
             /\ (wpc[w] = "run" /\ wpc'[w] = "run") =>
                   wtask'[w] = wtask[w]]_vars

\* C20 witness: a worker runs a job admitted as STANDARD whose chat has
\* subscribed since, while a job admitted as PRIORITY, whose chat's
\* subscription has ended since, waits in the queue.
C20_Witness ==
    /\ \E w \in Workers :
          /\ wpc[w] = "run"
          /\ wtask[w].priority = 1
          /\ ClassNow(wtask[w].chat) = 0
    /\ \E i \in 1..Len(download_queue) :
          /\ download_queue[i].priority = 0
          /\ ClassNow(download_queue[i].chat) = 1

\* Job m is in the queue: put() has admitted it and no worker has taken it.
Queued(m) == \E i \in 1..Len(download_queue) : download_queue[i].msg = m

\* Job m has returned with a terminal status.
Finished(m) ==
    /\ jobs[m].pc = "done"
    /\ jobs[m].reported \in {"DELIVERED", "FAILED"}

\* No handler is suspended, the queue is empty, every get() has been
\* answered by task_done() and every worker waits in get().
Quiescent ==
    /\ handlers = <<>>
    /\ download_queue = <<>>
    /\ unfinished_tasks = 0
    /\ \A w \in Workers : wpc[w] = "get"

\* C21: with finitely many submissions, every awaited call returning or
\* raising and every ready worker being run, each admitted job, whatever its
\* priority, is taken from the queue and ends DELIVERED or FAILED, and from
\* some instant on the queue is empty with every dequeue acknowledged.
C21_EveryJobFinishes ==
    /\ \A m \in MsgIds : Queued(m) ~> Finished(m)
    /\ <>[]Quiescent

\* C21 witness: all the submissions were admitted and have ended, one
\* DELIVERED and one FAILED, and the pool is at rest.
C21_Witness ==
    /\ started = MaxLiveSubmits
    /\ nextMsg = MaxLiveSubmits + 1
    /\ Quiescent
    /\ \A m \in 1..MaxLiveSubmits : Finished(m)
    /\ \E m \in MsgIds : jobs[m].reported = "DELIVERED"
    /\ \E m \in MsgIds : jobs[m].reported = "FAILED"

====
